---- MODULE Spec2Model ----
(***************************************************************************)
(* fio_str.h : the dynamic, binary-safe string of facil.io with its        *)
(* embedded ("small") representation.                                      *)
(*                                                                         *)
(* The container fio_str_s is modelled at the byte level, because the code *)
(* reads and writes the same storage through two layouts: fio_str_s        *)
(* (small, frozen, reserved[], capa, len, data) and fio_str__small_s       *)
(* (small, frozen, data[]).  The layout is the one of a build whose        *)
(* size_t, intptr_t and pointers are SizeT = 4 bytes wide, little endian.  *)
(* Every byte value of the model is below 128, so that a 4 byte field read *)
(* through the wrong layout is still below 2^31 and the code's intptr_t    *)
(* arithmetic does not wrap.                                               *)
(*                                                                         *)
(* The heap is a small arena of blocks.  malloc returns the lowest block   *)
(* that is not live, filled with bytes the caller cannot rely on; realloc  *)
(* either resizes the block in place or moves it.  Both are decided by the *)
(* record nd, which the actions draw from NdSet.  A store outside the      *)
(* object a pointer points into is dropped and recorded in err, a load     *)
(* outside of it (or from a released block) yields nd.fill or, when the    *)
(* allocator left the block alone, the bytes still there.                  *)
(* FIO_ASSERT_ALLOC ends the process on allocation failure; the arena is   *)
(* large enough for that never to happen here.                             *)
(*                                                                         *)
(* Spec is the program with the history variables pre and last, for the    *)
(* properties of one call; SpecPlain is the same program without them, for *)
(* the properties of a state.                                              *)
(***************************************************************************)
EXTENDS Integers, Sequences, FiniteSets, TLC

VARIABLES
    str,    \* the bytes of each container: str["s"], str["t"]
    heap,   \* the bytes of each heap block
    live,   \* which heap blocks are allocated
    err,    \* the memory errors the last operation committed
    pre,    \* the memory just before the last operation
    last,   \* the last operation and its arguments
    steps   \* number of operations so far

vars == <<str, heap, live, err, pre, last, steps>>

(***************************************************************************)
(* Bounds of the model                                                     *)
(***************************************************************************)
\* number of public operations in a run
MaxOps == 2
\* number of blocks of the heap arena
NBlk == 3

(***************************************************************************)
(* Layout of fio_str_s and fio_str__small_s                                *)
(***************************************************************************)
\* sizeof(size_t) == sizeof(intptr_t) == sizeof(char *)
SizeT == 4
\* offsetof(fio_str_s, small)
OffSmall == 0
\* offsetof(fio_str_s, frozen)
OffFrozen == 1
\* offsetof(fio_str_s, reserved) == offsetof(fio_str__small_s, data)
OffReserved == 2
OffCapa == SizeT
OffLen == 2 * SizeT
OffData == 3 * SizeT
SizeofStr == 4 * SizeT

FIO_STR_SMALL_CAPA == SizeofStr - OffReserved

Blocks == 1..NBlk
NullStr == "null"

Min(a, b) == IF a < b THEN a ELSE b
Max(a, b) == IF a > b THEN a ELSE b

Zeros(n) == [i \in 1..n |-> 0]
Fill(n, b) == [i \in 1..n |-> b]

\* the little endian bytes of an unsigned value, n bytes wide
RECURSIVE LEBytes(_, _)
LEBytes(v, n) == IF n = 0 THEN <<>> ELSE <<v % 256>> \o LEBytes(v \div 256, n - 1)

\* the unsigned value of little endian bytes
RECURSIVE LEValue(_)
LEValue(bs) == IF bs = <<>> THEN 0 ELSE bs[1] + 256 * LEValue(Tail(bs))

\* (fio_str_s){.small = small, .frozen = frozen, .capa = capa, .len = len,
\*             .data = data}: the members not named are zero
MkStr(small, frozen, capa, len, data) ==
    <<small, frozen>> \o Zeros(SizeT - OffReserved)
        \o LEBytes(capa, SizeT) \o LEBytes(len, SizeT) \o LEBytes(data, SizeT)

FIO_STR_INIT == MkStr(1, 0, 0, 0, 0)

\* F applied to the value of v: v is evaluated once, whatever the number of
\* times F uses it
With(v, F(_)) == CHOOSE y \in { F(x) : x \in {v} } : TRUE

(***************************************************************************)
(* Member access, through the fio_str_s layout                             *)
(***************************************************************************)
Field(w, p, off) == LEValue(SubSeq(w.str[p], off + 1, off + SizeT))
SetField(w, p, off, v) ==
    With(LEBytes(v, SizeT), LAMBDA bs :
        [w EXCEPT !.str[p] = [i \in 1..SizeofStr |->
            IF i > off /\ i <= off + SizeT THEN bs[i - off] ELSE @[i]]])

s_small(w, p) == w.str[p][OffSmall + 1]
s_frozen(w, p) == w.str[p][OffFrozen + 1]
s_capa(w, p) == Field(w, p, OffCapa)
s_len(w, p) == Field(w, p, OffLen)
s_data(w, p) == Field(w, p, OffData)

\* the test (s->small || !s->data) of the code
IsSmall(w, p) == s_small(w, p) # 0 \/ s_data(w, p) = 0

(***************************************************************************)
(* Pointers, loads and stores                                              *)
(***************************************************************************)
NullPtr == [kind |-> "null", name |-> "", blk |-> 0, off |-> 0]
\* ((fio_str__small_s *)s)->data
EmbPtr(p) == [kind |-> "str", name |-> p, blk |-> 0, off |-> OffReserved]
\* a pointer to the first byte of heap block b; block 0 is NULL
HeapPtr(b) == IF b = 0 THEN NullPtr ELSE [kind |-> "heap", name |-> "", blk |-> b, off |-> 0]
PtrAdd(ptr, n) == [ptr EXCEPT !.off = @ + n]

\* the size of the object a pointer points into; 0 when there is none
ObjSize(w, ptr) ==
    IF ptr.kind = "str" THEN SizeofStr
    ELSE IF ptr.kind = "heap" /\ w.live[ptr.blk] THEN Len(w.heap[ptr.blk])
    ELSE 0

\* the byte at ptr[i]: a byte of the object ptr points into; outside of it, or
\* in a block that was released, whatever is there
LoadByte(w, ptr, i, nd) ==
    LET o == ptr.off + i IN
    IF ptr.kind = "str" /\ o >= 0 /\ o < SizeofStr THEN w.str[ptr.name][o + 1]
    ELSE IF ptr.kind = "heap" /\ o >= 0 /\ o < Len(w.heap[ptr.blk])
                /\ (w.live[ptr.blk] \/ nd.fill = 0)
         THEN w.heap[ptr.blk][o + 1]
    ELSE nd.fill

LoadBytes(w, ptr, n, nd) == [i \in 1..n |-> LoadByte(w, ptr, i - 1, nd)]

\* the memory errors of an access to ptr[0 .. n-1]
AccessErr(w, ptr, n, what) ==
    IF n = 0 THEN {}
    ELSE IF ptr.kind = "heap" /\ ~w.live[ptr.blk] THEN {"use_after_free"}
    ELSE IF ptr.kind = "null" \/ ptr.off < 0 \/ ptr.off + n > ObjSize(w, ptr) THEN {what}
    ELSE {}

\* ptr[0 .. Len(bs)-1] = bs; the bytes that fall outside the object are dropped
Store(w, ptr, bs) ==
    LET n == Len(bs)
        upd(obj) == [j \in 1..Len(obj) |->
                        IF j > ptr.off /\ j <= ptr.off + n THEN bs[j - ptr.off] ELSE obj[j]]
        w1 == [w EXCEPT !.err = @ \cup AccessErr(w, ptr, n, "oob_write")]
    IN  IF ptr.kind = "str" THEN [w1 EXCEPT !.str[ptr.name] = upd(@)]
        ELSE IF ptr.kind = "heap" /\ w.live[ptr.blk] THEN [w1 EXCEPT !.heap[ptr.blk] = upd(@)]
        ELSE w1

StoreBytes(w, ptr, bs) ==
    With(<<w, ptr, bs>>, LAMBDA a : Store(a[1], a[2], a[3]))

\* memcpy(dst, src, n) and memmove(dst, src, n): the source is read whole
\* before the destination is written
memmove(w, dst, src, n, nd) ==
    With(<<w, dst, src>>, LAMBDA a :
        Store([a[1] EXCEPT !.err = @ \cup AccessErr(a[1], a[3], n, "oob_read")],
              a[2], LoadBytes(a[1], a[3], n, nd)))

(***************************************************************************)
(* malloc, realloc, free                                                   *)
(***************************************************************************)
FreeBlock(w) == CHOOSE b \in Blocks : ~w.live[b] /\ \A c \in Blocks : ~w.live[c] => b <= c

\* malloc(n): [w, blk]
malloc(w, n, nd) ==
    With(FreeBlock(w), LAMBDA b :
        [w |-> [w EXCEPT !.heap[b] = Fill(n, nd.fill), !.live[b] = TRUE],
         blk |-> b])

\* free(blk); free(NULL) does nothing
free(w, b) ==
    IF b = 0 THEN w
    ELSE IF ~w.live[b] THEN [w EXCEPT !.err = @ \cup {"double_free"}]
    ELSE [w EXCEPT !.live[b] = FALSE]

\* realloc(blk, n): [w, blk]; the first Min(old size, n) bytes are kept
realloc(w, b, n, nd) ==
    IF b = 0 THEN malloc(w, n, nd)
    ELSE With([i \in 1..n |-> IF i <= Len(w.heap[b]) THEN w.heap[b][i] ELSE nd.fill],
              LAMBDA new :
                IF nd.move
                THEN With(malloc(w, n, nd), LAMBDA m :
                        [w |-> free([m.w EXCEPT !.heap[m.blk] = new], b), blk |-> m.blk])
                ELSE [w |-> [w EXCEPT !.heap[b] = new], blk |-> b])

(***************************************************************************)
(* String state                                                            *)
(***************************************************************************)
NullState == [capa |-> 0, len |-> 0, data |-> NullPtr]

\* the state of the embedded representation
SmallState(w, p) ==
    [capa |-> FIO_STR_SMALL_CAPA - 1, len |-> s_small(w, p) \div 2, data |-> EmbPtr(p)]

\* the state of the heap representation
LongState(w, p) ==
    [capa |-> s_capa(w, p), len |-> s_len(w, p), data |-> HeapPtr(s_data(w, p))]

fio_str_state(w, p) ==
    IF p = NullStr THEN NullState
    ELSE IF IsSmall(w, p) THEN SmallState(w, p)
    ELSE LongState(w, p)

fio_str_len(w, p) == IF IsSmall(w, p) THEN s_small(w, p) \div 2 ELSE s_len(w, p)

fio_str_capa(w, p) == IF IsSmall(w, p) THEN FIO_STR_SMALL_CAPA - 1 ELSE s_capa(w, p)

fio_str_data(w, p) == IF IsSmall(w, p) THEN EmbPtr(p) ELSE HeapPtr(s_data(w, p))

\* fio_str_free that carries the frozen flag over:
\* *s = (fio_str_s){.small = 1, .frozen = s->frozen}
fio_str_free_keeps_frozen(w, p) ==
    LET w1 == IF s_small(w, p) = 0 THEN free(w, s_data(w, p)) ELSE w
    IN  [w1 EXCEPT !.str[p] = MkStr(1, s_frozen(w, p), 0, 0, 0)]

fio_str_free(w, p) ==
    LET w1 == IF s_small(w, p) = 0 THEN free(w, s_data(w, p)) ELSE w
    IN  [w1 EXCEPT !.str[p] = FIO_STR_INIT]

(***************************************************************************)
(* Memory management and resizing                                          *)
(***************************************************************************)
\* the shrink2small branch without its memcpy
shrink2small_no_copy(w, p, nd) ==
    With(<<s_data(w, p), s_len(w, p)>>, LAMBDA a :
      free([w EXCEPT !.str[p] = MkStr((2 * a[2] + 1) % 256, s_frozen(w, p), 0, 0, 0)],
           a[1]))

\* the shrink2small branch of fio_str_compact
shrink2small(w, p, nd) ==
    With(<<s_data(w, p), s_len(w, p)>>, LAMBDA a :
      LET tmp == a[1]
          len == a[2]
      IN  With([w EXCEPT !.str[p] = MkStr((2 * len + 1) % 256, s_frozen(w, p), 0, 0, 0)],
               LAMBDA w1 :
                 free(IF len # 0 THEN memmove(w1, EmbPtr(p), HeapPtr(tmp), len + 1, nd)
                      ELSE w1,
                      tmp)))

\* fio_str_compact with its last assignment the wrong way round:
\* s->len = s->capa instead of s->capa = s->len
fio_str_compact_swapped(w, p, nd) ==
    IF p = NullStr \/ IsSmall(w, p) THEN w
    ELSE IF s_len(w, p) < FIO_STR_SMALL_CAPA THEN shrink2small(w, p, nd)
    ELSE With(realloc(w, s_data(w, p), s_len(w, p) + 1, nd), LAMBDA r :
           With(SetField(r.w, p, OffData, r.blk), LAMBDA w1 :
             SetField(w1, p, OffLen, s_capa(w1, p))))

fio_str_compact(w, p, nd) ==
    IF p = NullStr \/ IsSmall(w, p) THEN w
    ELSE IF s_len(w, p) < FIO_STR_SMALL_CAPA THEN shrink2small(w, p, nd)
    ELSE With(realloc(w, s_data(w, p), s_len(w, p) + 1, nd), LAMBDA r :
           With(SetField(r.w, p, OffData, r.blk), LAMBDA w1 :
             SetField(w1, p, OffCapa, s_len(w1, p))))

\* the promotion with .len = s->small: the shift that drops the flag bit is
\* left out
promoted_raw_len(w, p, needed, len, blk) ==
    [w EXCEPT !.str[p] = MkStr(0, 0, needed, 2 * len + 1, blk)]

\* the promotion with .capa = needed + 1: the size of the buffer instead of
\* its capacity
promoted_capa_is_size(w, p, needed, len, blk) ==
    [w EXCEPT !.str[p] = MkStr(0, 0, needed + 1, len, blk)]

\* the assignment that ends the promotion of fio_str_capa_assert:
\* *s = (fio_str_s){.small = 0, .capa = needed, .len = len, .data = tmp}
promoted(w, p, needed, len, blk) ==
    [w EXCEPT !.str[p] = MkStr(0, 0, needed, len, blk)]

\* fio_str_capa_assert, with the capacity from which an embedded string is
\* moved to the heap
capa_assert_from(w, p, needed, nd, limit) ==
    IF p = NullStr THEN [w |-> w, ret |-> NullState]
    ELSE IF IsSmall(w, p)
    THEN \* is_small
         IF needed < limit THEN [w |-> w, ret |-> SmallState(w, p)]
         ELSE With(malloc(w, needed + 1, nd), LAMBDA m :
                LET len == s_small(w, p) \div 2
                    tmp == HeapPtr(m.blk)
                IN  With(IF len # 0 THEN memmove(m.w, tmp, EmbPtr(p), len + 1, nd)
                         ELSE StoreBytes(m.w, tmp, <<0>>),
                         LAMBDA w1 :
                           With(promoted(w1, p, needed, len, m.blk),
                                LAMBDA w2 :
                                  [w |-> w2,
                                   ret |-> [capa |-> needed, len |-> s_len(w2, p),
                                            data |-> HeapPtr(s_data(w2, p))]])))
    ELSE IF needed > s_capa(w, p)
    THEN With(SetField(w, p, OffCapa, needed), LAMBDA w1 :
           With(realloc(w1, s_data(w1, p), s_capa(w1, p) + 1, nd), LAMBDA r :
             With(SetField(r.w, p, OffData, r.blk), LAMBDA w2 :
               With(StoreBytes(w2, PtrAdd(HeapPtr(s_data(w2, p)), s_capa(w2, p)), <<0>>),
                    LAMBDA w3 : [w |-> w3, ret |-> LongState(w3, p)]))))
    ELSE [w |-> w, ret |-> LongState(w, p)]

\* fio_str_capa_assert with the test needed <= FIO_STR_SMALL_CAPA for
\* needed < FIO_STR_SMALL_CAPA
fio_str_capa_assert_off_by_one(w, p, needed, nd) ==
    capa_assert_from(w, p, needed, nd, FIO_STR_SMALL_CAPA + 1)

\* fio_str_capa_assert moving an embedded string to the heap one byte early
fio_str_capa_assert_eager(w, p, needed, nd) ==
    capa_assert_from(w, p, needed, nd, FIO_STR_SMALL_CAPA - 1)

fio_str_capa_assert(w, p, needed, nd) ==
    capa_assert_from(w, p, needed, nd, FIO_STR_SMALL_CAPA)

fio_str_resize(w, p, size, nd) ==
    IF p = NullStr THEN [w |-> w, ret |-> NullState]
    ELSE IF s_frozen(w, p) # 0 THEN [w |-> w, ret |-> fio_str_state(w, p)]
    ELSE With(<<fio_str_capa_assert(w, p, size, nd).w, size>>, LAMBDA a :
           IF IsSmall(a[1], p)
           THEN With([a[1] EXCEPT !.str[p][OffSmall + 1] = (2 * a[2] + 1) % 256], LAMBDA w1 :
                  [w |-> StoreBytes(w1, PtrAdd(EmbPtr(p), a[2]), <<0>>),
                   ret |-> [capa |-> FIO_STR_SMALL_CAPA - 1, len |-> a[2], data |-> EmbPtr(p)]])
           ELSE With(SetField(a[1], p, OffLen, a[2]), LAMBDA w1 :
                  [w |-> StoreBytes(w1, PtrAdd(HeapPtr(s_data(w1, p)), a[2]), <<0>>),
                   ret |-> [capa |-> s_capa(w1, p), len |-> a[2],
                            data |-> HeapPtr(s_data(w1, p))]]))

(***************************************************************************)
(* Content manipulation                                                    *)
(***************************************************************************)
\* fio_str_write copying the source to the start of the buffer: the offset
\* state.len - src_len is left out
fio_str_write_at_start(w, p, src, nd) ==
    IF p = NullStr THEN [w |-> w, ret |-> NullState]
    ELSE IF Len(src) = 0 \/ s_frozen(w, p) # 0 THEN [w |-> w, ret |-> fio_str_state(w, p)]
    ELSE With(fio_str_resize(w, p, Len(src) + fio_str_len(w, p), nd), LAMBDA r :
           [w |-> StoreBytes(r.w, r.ret.data, src), ret |-> r.ret])

fio_str_write(w, p, src, nd) ==
    IF p = NullStr THEN [w |-> w, ret |-> NullState]
    ELSE IF Len(src) = 0 \/ s_frozen(w, p) # 0 THEN [w |-> w, ret |-> fio_str_state(w, p)]
    ELSE With(fio_str_resize(w, p, Len(src) + fio_str_len(w, p), nd), LAMBDA r :
           LET state == r.ret
           IN  [w |-> StoreBytes(r.w, PtrAdd(state.data, state.len - Len(src)), src),
                ret |-> state])

\* fio_str_concat sizing dest for the source alone
fio_str_concat_drops_dest(w, dest, src, nd) ==
    IF dest = NullStr THEN [w |-> w, ret |-> NullState]
    ELSE IF src = NullStr \/ s_frozen(w, dest) # 0 THEN [w |-> w, ret |-> fio_str_state(w, dest)]
    ELSE With(fio_str_state(w, src), LAMBDA src_state :
           IF src_state.len = 0 THEN [w |-> w, ret |-> fio_str_state(w, dest)]
           ELSE With(fio_str_resize(w, dest, src_state.len, nd),
                     LAMBDA r :
                       LET state == r.ret
                       IN  [w |-> memmove(r.w, PtrAdd(state.data, state.len - src_state.len),
                                          src_state.data, src_state.len, nd),
                            ret |-> state]))

fio_str_concat(w, dest, src, nd) ==
    IF dest = NullStr THEN [w |-> w, ret |-> NullState]
    ELSE IF src = NullStr \/ s_frozen(w, dest) # 0 THEN [w |-> w, ret |-> fio_str_state(w, dest)]
    ELSE With(fio_str_state(w, src), LAMBDA src_state :
           IF src_state.len = 0 THEN [w |-> w, ret |-> fio_str_state(w, dest)]
           ELSE With(fio_str_resize(w, dest, src_state.len + fio_str_len(w, dest), nd),
                     LAMBDA r :
                       LET state == r.ret
                       IN  [w |-> memmove(r.w, PtrAdd(state.data, state.len - src_state.len),
                                          src_state.data, src_state.len, nd),
                            ret |-> state]))

\* the position a negative pos stands for: pos += s->len + 1, at least 0
BackwardsPos(w, p, pos) ==
    IF pos < 0 THEN Max(pos + s_len(w, p) + 1, 0) ELSE pos

fio_str_overwrite(w, p, src, pos, nd) ==
    IF p = NullStr THEN [w |-> w, ret |-> NullState]
    ELSE IF Len(src) = 0 \/ s_frozen(w, p) # 0 THEN [w |-> w, ret |-> fio_str_state(w, p)]
    ELSE With(fio_str_state(w, p), LAMBDA state0 :
           With(Min(BackwardsPos(w, p, pos), state0.len), LAMBDA pos1 :
             With(IF pos1 + Len(src) > state0.len
                  THEN fio_str_resize(w, p, pos1 + Len(src), nd)
                  ELSE [w |-> w, ret |-> state0],
                  LAMBDA r :
                    With(StoreBytes(r.w, PtrAdd(r.ret.data, pos1), src), LAMBDA w1 :
                      [w |-> IF pos1 + Len(src) > s_len(w1, p)
                             THEN SetField(w1, p, OffLen, pos1 + Len(src))
                             ELSE w1,
                       ret |-> r.ret]))))

\* fio_str_insert past its first test
insert_bytes(w, p, src, pos, nd) ==
    With(<<BackwardsPos(w, p, pos),
           fio_str_resize(w, p, Len(src) + fio_str_len(w, p), nd)>>, LAMBDA a :
      LET state == a[2].ret
          src_len == Len(src)
          pos1 == Min(a[1], state.len - src_len)
      IN  [w |-> StoreBytes(IF pos1 # state.len
                            THEN memmove(a[2].w, PtrAdd(state.data, pos1 + src_len),
                                         PtrAdd(state.data, pos1), src_len, nd)
                            ELSE a[2].w,
                            PtrAdd(state.data, pos1), src),
           ret |-> state])

\* fio_str_insert without the test of s->frozen
fio_str_insert_unguarded(w, p, src, pos, nd) ==
    IF p = NullStr THEN [w |-> w, ret |-> NullState]
    ELSE IF Len(src) = 0 THEN [w |-> w, ret |-> fio_str_state(w, p)]
    ELSE insert_bytes(w, p, src, pos, nd)

fio_str_insert(w, p, src, pos, nd) ==
    IF p = NullStr THEN [w |-> w, ret |-> NullState]
    ELSE IF Len(src) = 0 \/ s_frozen(w, p) # 0 THEN [w |-> w, ret |-> fio_str_state(w, p)]
    ELSE insert_bytes(w, p, src, pos, nd)

fio_str_freeze(w, p) ==
    IF p = NullStr THEN w ELSE [w EXCEPT !.str[p][OffFrozen + 1] = 1]

(***************************************************************************)
(* The program: one container s under test, a second container t that is   *)
(* only ever read (the src of fio_str_concat), and the public operations   *)
(* applied to s with arguments drawn from the sets below.                  *)
(***************************************************************************)
\* the byte sources handed to write, overwrite and insert
Sources == { <<1>>, <<2, 3>>, <<4, 5, 6, 7, 8, 9>> }
\* the positions handed to overwrite and insert
Positions == { -9, -1, 0, 1, 2, 40 }
\* the sizes handed to fio_str_resize
Sizes == { 0, 2, FIO_STR_SMALL_CAPA - 1, FIO_STR_SMALL_CAPA, FIO_STR_SMALL_CAPA + 3 }
\* the capacities handed to fio_str_capa_assert
Needed == { 3, FIO_STR_SMALL_CAPA, FIO_STR_SMALL_CAPA + 3 }
\* the content t is given before the run
TSources == { <<>>, <<7, 8>>, [i \in 1..(FIO_STR_SMALL_CAPA + 1) |-> 10 + i] }
\* what the allocator does: the value of the bytes it hands out without
\* initialising them, and whether realloc moves the block
NdSet == [fill : {0, 90}, move : BOOLEAN]

\* the memory an operation starts from
World == [str |-> str, heap |-> heap, live |-> live, err |-> {}]

\* two containers set to FIO_STR_INIT and an empty heap
World0 ==
    [str |-> [n \in {"s", "t"} |-> FIO_STR_INIT],
     heap |-> [b \in Blocks |-> <<>>],
     live |-> [b \in Blocks |-> FALSE],
     err |-> {}]

\* the memory an operation leaves behind.  No pointer into a released block
\* outlives the operation that released it, so what the block still holds is
\* dropped from the state.
Settled(w) == [w EXCEPT !.heap = [b \in Blocks |-> IF w.live[b] THEN w.heap[b] ELSE <<>>]]

NoOp == [op |-> "init", src |-> <<>>, arg |-> 0, from |-> ""]
Op(name, src, arg, from) == [op |-> name, src |-> src, arg |-> arg, from |-> from]

\* s and t are initialised with FIO_STR_INIT; t is then given its content
Init ==
    \E src \in TSources, nd \in NdSet :
        \E w \in {Settled(fio_str_write(World0, "t", src, nd).w)} :
            /\ str = w.str
            /\ heap = w.heap
            /\ live = w.live
            /\ err = w.err
            /\ pre = [w EXCEPT !.err = {}]
            /\ last = NoOp
            /\ steps = 0

\* the step that takes the memory to w, and records the operation and the
\* memory it started from
Do(w, op) ==
    /\ str' = w.str
    /\ heap' = w.heap
    /\ live' = w.live
    /\ err' = w.err
    /\ pre' = World
    /\ last' = op
    /\ steps' = steps + 1

\* the step that takes the memory to w and keeps no record of the operation
Forget(w, op) ==
    /\ str' = w.str
    /\ heap' = w.heap
    /\ live' = w.live
    /\ steps' = steps + 1
    /\ UNCHANGED <<err, pre, last>>

\* the step an action ends with
Then(record, w, op) == IF record THEN Do(w, op) ELSE Forget(w, op)

\* One action per function of the interface, called on s; record tells
\* whether the step keeps the record of the operation.
Write(record) ==
    /\ steps < MaxOps
    /\ \E src \in Sources, nd \in NdSet :
        \E w \in {Settled(fio_str_write(World, "s", src, nd).w)} :
            Then(record, w, Op("write", src, 0, ""))

Concat(record) ==
    /\ steps < MaxOps
    /\ \E from \in {"s", "t"}, nd \in NdSet :
        \E w \in {Settled(fio_str_concat(World, "s", from, nd).w)} :
            Then(record, w, Op("concat", <<>>, 0, from))

Overwrite(record) ==
    /\ steps < MaxOps
    /\ \E src \in Sources, pos \in Positions, nd \in NdSet :
        \E w \in {Settled(fio_str_overwrite(World, "s", src, pos, nd).w)} :
            Then(record, w, Op("overwrite", src, pos, ""))

Insert(record) ==
    /\ steps < MaxOps
    /\ \E src \in Sources, pos \in Positions, nd \in NdSet :
        \E w \in {Settled(fio_str_insert(World, "s", src, pos, nd).w)} :
            Then(record, w, Op("insert", src, pos, ""))

Resize(record) ==
    /\ steps < MaxOps
    /\ \E size \in Sizes, nd \in NdSet :
        \E w \in {Settled(fio_str_resize(World, "s", size, nd).w)} :
            Then(record, w, Op("resize", <<>>, size, ""))

CapaAssert(record) ==
    /\ steps < MaxOps
    /\ \E needed \in Needed, nd \in NdSet :
        \E w \in {Settled(fio_str_capa_assert(World, "s", needed, nd).w)} :
            Then(record, w, Op("capa_assert", <<>>, needed, ""))

Compact(record) ==
    /\ steps < MaxOps
    /\ \E nd \in NdSet :
        \E w \in {Settled(fio_str_compact(World, "s", nd))} :
            Then(record, w, Op("compact", <<>>, 0, ""))

Freeze(record) ==
    /\ steps < MaxOps
    /\ \E w \in {fio_str_freeze(World, "s")} :
        Then(record, w, Op("freeze", <<>>, 0, ""))

Free(record) ==
    /\ steps < MaxOps
    /\ \E w \in {Settled(fio_str_free(World, "s"))} :
        Then(record, w, Op("free", <<>>, 0, ""))

\* the program with the record of the last operation, for the properties of
\* one call
Next ==
    \/ Write(TRUE)
    \/ Concat(TRUE)
    \/ Overwrite(TRUE)
    \/ Insert(TRUE)
    \/ Resize(TRUE)
    \/ CapaAssert(TRUE)
    \/ Compact(TRUE)
    \/ Freeze(TRUE)
    \/ Free(TRUE)

Spec == Init /\ [][Next]_vars

\* the same program without that record, for the properties of a state: the
\* states differ by the memory only
NextPlain ==
    \/ Write(FALSE)
    \/ Concat(FALSE)
    \/ Overwrite(FALSE)
    \/ Insert(FALSE)
    \/ Resize(FALSE)
    \/ CapaAssert(FALSE)
    \/ Compact(FALSE)
    \/ Freeze(FALSE)
    \/ Free(FALSE)

SpecPlain == Init /\ [][NextPlain]_vars

(***************************************************************************)
(* What a caller sees of the container s                                   *)
(***************************************************************************)
\* the byte at ptr[i] when it lies inside a live object, -1 otherwise
ByteAt(w, ptr, i) ==
    IF i >= 0 /\ ptr.off + i < ObjSize(w, ptr)
    THEN LoadByte(w, ptr, i, [fill |-> 0, move |-> FALSE])
    ELSE -1

\* the state fio_str_state reports for s
StateOf(w) == fio_str_state(w, "s")
Frozen(w) == s_frozen(w, "s") # 0
Embedded(w) == IsSmall(w, "s")
\* what a caller can tell of s: the representation, the state fio_str_state
\* reports, the bytes [0, length) and the byte at index length
View(w) ==
    With(w, LAMBDA v :
        With(StateOf(v), LAMBDA st :
            [small |-> Embedded(v),
             state |-> st,
             bytes |-> [i \in 1..st.len |-> ByteAt(v, st.data, i - 1)],
             term |-> ByteAt(v, st.data, st.len)]))
\* the bytes [0, length) of s
Content(w) == View(w).bytes
\* the byte at index length
Terminator(w) == View(w).term
\* the view without the pointer: a realloc may move the buffer
Shape(w) ==
    With(View(w), LAMBDA v :
        [small |-> v.small, len |-> v.state.len, capa |-> v.state.capa,
         bytes |-> v.bytes, term |-> v.term])

\* the content read as seq[lo+1 .. hi]
Slice(seq, lo, hi) == SubSeq(seq, lo + 1, hi)

(***************************************************************************)
(* C1  After any sequence of public operations on a container that started *)
(* as FIO_STR_INIT, the byte at index length of the reported buffer is 0.  *)
(***************************************************************************)
C1_TerminatorIsZero == Terminator(World) = 0

(***************************************************************************)
(* C2  After any sequence of public operations, the reported length is at  *)
(* most the reported capacity.                                             *)
(***************************************************************************)
C2_LenWithinCapa == StateOf(World).len <= StateOf(World).capa

\* a heap buffer filled to its capacity, past what the container embeds
C2_Witness ==
    /\ ~Embedded(World)
    /\ StateOf(World).len = StateOf(World).capa
    /\ StateOf(World).len > FIO_STR_SMALL_CAPA

(***************************************************************************)
(* C3  On a frozen container, write, insert and overwrite, with any byte   *)
(* source and any position, change nothing: the memory is the same and the *)
(* state they return is the state before the call.  (They leave the flag   *)
(* set, so the same holds for any sequence of them.)                       *)
(***************************************************************************)
C3_FrozenIgnoresWrites ==
    Frozen(World) =>
        \A src \in Sources, nd \in NdSet :
            /\ fio_str_write(World, "s", src, nd) = [w |-> World, ret |-> StateOf(World)]
            /\ \A pos \in Positions :
                /\ fio_str_insert(World, "s", src, pos, nd)
                       = [w |-> World, ret |-> StateOf(World)]
                /\ fio_str_overwrite(World, "s", src, pos, nd)
                       = [w |-> World, ret |-> StateOf(World)]

\* a frozen container in the heap representation, with content
C3_Witness ==
    /\ Frozen(World)
    /\ ~Embedded(World)
    /\ StateOf(World).len > 0

(***************************************************************************)
(* C4  Once the container is frozen, no operation other than fio_str_free  *)
(* changes the pointer, length or capacity that fio_str_state reports, or  *)
(* the bytes they reference.                                               *)
(***************************************************************************)
C4_FrozenFrame ==
    (Frozen(pre) /\ last.op \notin {"init", "free"}) => View(World) = View(pre)

(***************************************************************************)
(* C5  Once set, the frozen flag stays set after every operation other     *)
(* than fio_str_free.                                                      *)
(***************************************************************************)
C5_FrozenSticks ==
    (Frozen(pre) /\ last.op \notin {"init", "free"}) => Frozen(World)

(***************************************************************************)
(* C6  fio_str_insert with a position 0 <= pos <= length on a container    *)
(* that is not frozen yields the old bytes before pos, then the source,    *)
(* then the old bytes from pos on.                                         *)
(***************************************************************************)
C6_InsertShifts ==
    (last.op = "insert" /\ ~Frozen(pre) /\ last.arg >= 0 /\ last.arg <= Len(Content(pre)))
        => \E old \in {Content(pre)} :
              Content(World) = Slice(old, 0, last.arg) \o last.src
                                   \o Slice(old, last.arg, Len(old))

(***************************************************************************)
(* C7  fio_str_insert with pos = -1 on a container that is not frozen      *)
(* leaves the length and bytes that fio_str_write leaves.                  *)
(***************************************************************************)
C7_InsertAtEndIsWrite ==
    (last.op = "insert" /\ ~Frozen(pre) /\ last.arg = -1)
        => \A nd \in NdSet :
              Content(World) = Content(fio_str_write(pre, "s", last.src, nd).w)

(***************************************************************************)
(* C8  fio_str_overwrite with a position 0 <= pos <= length on a container *)
(* that is not frozen yields length max(length, pos + src_len), the source *)
(* at [pos, pos + src_len) and every other byte as it was.                 *)
(***************************************************************************)
C8_OverwriteInPlace ==
    (last.op = "overwrite" /\ ~Frozen(pre) /\ last.arg >= 0
            /\ last.arg <= Len(Content(pre)))
        => \E old \in {Content(pre)} :
              Content(World) =
                  [i \in 1..Max(Len(old), last.arg + Len(last.src)) |->
                      IF i > last.arg /\ i <= last.arg + Len(last.src)
                      THEN last.src[i - last.arg]
                      ELSE old[i]]

(***************************************************************************)
(* C9  fio_str_write appends, and two writes make one: when the container  *)
(* was not frozen and the last operation wrote a, the content is the old   *)
(* content followed by a, and writing b next leaves what a single write of *)
(* a \o b would have left: the old content, then a, then b.                *)
(***************************************************************************)
C9_WriteComposes ==
    (last.op = "write" /\ ~Frozen(pre))
        => \E old \in {Content(pre)} :
              /\ Content(World) = old \o last.src
              /\ \A b \in Sources, nd \in NdSet :
                    /\ Content(fio_str_write(World, "s", b, nd).w) = old \o last.src \o b
                    /\ Content(fio_str_write(pre, "s", last.src \o b, nd).w)
                           = old \o last.src \o b

\* two writes on the embedded container, and a third that promotes it
C9_Witness ==
    /\ last.op = "write"
    /\ ~Frozen(pre)
    /\ Content(pre) # <<>>
    /\ Embedded(World)
    /\ \E b \in Sources :
          ~Embedded(fio_str_write(World, "s", b, [fill |-> 90, move |-> FALSE]).w)

(***************************************************************************)
(* C10  fio_str_compact is idempotent: a second fio_str_compact leaves the *)
(* representation, length, capacity and bytes the first one left.          *)
(***************************************************************************)
C10_CompactIdempotent ==
    \A once \in { fio_str_compact(World, "s", nd1) : nd1 \in NdSet } :
        \A twice \in { fio_str_compact(once, "s", nd2) : nd2 \in NdSet } :
            twice = once \/ Shape(twice) = Shape(once)

\* a heap container whose buffer is larger than its content: fio_str_compact
\* has a buffer to shrink
C10_Witness ==
    /\ ~Embedded(World)
    /\ StateOf(World).capa > StateOf(World).len
    /\ StateOf(World).len >= FIO_STR_SMALL_CAPA
    /\ Shape(fio_str_compact(World, "s", [fill |-> 90, move |-> TRUE])).capa
           = StateOf(World).len

(***************************************************************************)
(* C11  When fio_str_compact leaves a length below FIO_STR_SMALL_CAPA, the *)
(* container is embedded and reports the capacity of the embedded buffer,  *)
(* and its length and bytes are those it had before the call.              *)
(***************************************************************************)
C11_CompactEmbeds ==
    \A c \in { fio_str_compact(World, "s", nd) : nd \in NdSet } :
        StateOf(c).len < FIO_STR_SMALL_CAPA =>
            /\ Embedded(c)
            /\ StateOf(c).capa = FIO_STR_SMALL_CAPA - 1
            /\ StateOf(c).len = StateOf(World).len
            /\ Content(c) = Content(World)

\* a heap container with content short enough to be embedded, which
\* fio_str_compact embeds
C11_Witness ==
    /\ ~Embedded(World)
    /\ StateOf(World).len > 0
    /\ StateOf(World).len < FIO_STR_SMALL_CAPA
    /\ Embedded(fio_str_compact(World, "s", [fill |-> 90, move |-> TRUE]))

(***************************************************************************)
(* C12  fio_str_capa_assert changes neither the length nor the bytes       *)
(* [0, length), whether it has nothing to do, grows the heap buffer or     *)
(* moves an embedded string to the heap.                                   *)
(***************************************************************************)
C12_CapaAssertKeepsContent ==
    last.op = "capa_assert" =>
        /\ StateOf(World).len = StateOf(pre).len
        /\ Content(World) = Content(pre)

\* an embedded string with content has just been moved to the heap
C12_Witness ==
    /\ last.op = "capa_assert"
    /\ Embedded(pre)
    /\ ~Embedded(World)
    /\ Content(pre) # <<>>

(***************************************************************************)
(* C13  After fio_str_capa_assert(s, needed) the reported capacity is at   *)
(* least needed: it is exactly needed when the capacity before was below   *)
(* needed (the buffer is grown, or the embedded string moved to the heap,  *)
(* to a buffer of needed + 1 bytes), and unchanged when the capacity       *)
(* before was already needed or more.                                      *)
(***************************************************************************)
C13_CapaExact ==
    last.op = "capa_assert" =>
        /\ StateOf(World).capa >= last.arg
        /\ StateOf(pre).capa < last.arg =>
               /\ StateOf(World).capa = last.arg
               /\ ObjSize(World, StateOf(World).data) = last.arg + 1
        /\ StateOf(pre).capa >= last.arg => StateOf(World).capa = StateOf(pre).capa

\* a heap buffer has just been grown to the capacity asked for
C13_Witness ==
    /\ last.op = "capa_assert"
    /\ ~Embedded(pre)
    /\ StateOf(pre).capa < last.arg
    /\ StateOf(World).capa = last.arg

(***************************************************************************)
(* C14  Heap buffers are owned: no operation reads or writes a buffer that *)
(* was released or releases one twice, the buffers allocated are exactly   *)
(* those the containers point to (none is leaked, none released while      *)
(* still held), and after fio_str_free the container holds no buffer, so   *)
(* that a second fio_str_free releases nothing.                            *)
(***************************************************************************)
Held(w) == { s_data(w, p) : p \in { q \in {"s", "t"} : ~IsSmall(w, q) } }

C14_HeapOwnership ==
    /\ err \cap {"use_after_free", "double_free"} = {}
    /\ { b \in Blocks : live[b] } = Held(World)
    /\ last.op = "free" =>
           /\ Embedded(World)
           /\ fio_str_free(World, "s") = World

(***************************************************************************)
(* C15  fio_str_free, from any state, leaves the container as FIO_STR_INIT *)
(* made it: embedded, of length 0, with the capacity of the embedded       *)
(* buffer and the frozen flag clear; and write, resize, insert and         *)
(* overwrite then give what they give on a container just initialised.     *)
(***************************************************************************)
C15_FreeResets ==
    /\ \E f \in {fio_str_free(World, "s")} :
          /\ f.str["s"] = FIO_STR_INIT
          /\ Embedded(f)
          /\ ~Frozen(f)
          /\ StateOf(f).len = 0
          /\ StateOf(f).capa = FIO_STR_SMALL_CAPA - 1
          /\ Terminator(f) = 0
    /\ last.op = "free" =>
          \A nd \in NdSet :
              /\ \A src \in Sources :
                    /\ Shape(fio_str_write(World, "s", src, nd).w)
                           = Shape(fio_str_write(World0, "s", src, nd).w)
                    /\ \A pos \in Positions :
                          /\ Shape(fio_str_insert(World, "s", src, pos, nd).w)
                                 = Shape(fio_str_insert(World0, "s", src, pos, nd).w)
                          /\ Shape(fio_str_overwrite(World, "s", src, pos, nd).w)
                                 = Shape(fio_str_overwrite(World0, "s", src, pos, nd).w)
              /\ \A size \in Sizes :
                    Shape(fio_str_resize(World, "s", size, nd).w)
                        = Shape(fio_str_resize(World0, "s", size, nd).w)

\* a frozen container that owns a heap buffer: fio_str_free has a buffer to
\* release and a flag to clear
C15_Witness ==
    /\ ~Embedded(World)
    /\ Frozen(World)
    /\ StateOf(World).len > 0
    /\ ~Frozen(fio_str_free(World, "s"))

(***************************************************************************)
(* C16  As stated: while the container is embedded, its length is strictly *)
(* below the capacity fio_str_state reports for it.                        *)
(***************************************************************************)
C16_EmbeddedLenBelowCapa ==
    Embedded(World) => StateOf(World).len < StateOf(World).capa

(***************************************************************************)
(* C16  Amended: while the container is embedded, its length is at most    *)
(* the capacity fio_str_state reports, FIO_STR_SMALL_CAPA - 1, so that the *)
(* content and its terminator fit the embedded buffer; a container with a  *)
(* longer content is on the heap, in a buffer that holds the content and   *)
(* its terminator.                                                         *)
(***************************************************************************)
C16_EmbeddedLenFits ==
    IF Embedded(World)
    THEN /\ StateOf(World).capa = FIO_STR_SMALL_CAPA - 1
         /\ StateOf(World).len <= StateOf(World).capa
         /\ OffReserved + StateOf(World).len + 1 <= SizeofStr
    ELSE ObjSize(World, StateOf(World).data) >= StateOf(World).len + 1

\* an embedded container filled to the capacity it reports, which one more
\* byte moves to the heap
C16_Witness ==
    /\ Embedded(World)
    /\ StateOf(World).len = StateOf(World).capa
    /\ ~Embedded(fio_str_write(World, "s", <<1>>, [fill |-> 0, move |-> FALSE]).w)


(***************************************************************************)
(* C17: fio_str_concat(dest, src) with a dest that is not frozen and a     *)
(* src that is another container leaves dest holding its old content       *)
(* followed by the content of src, its length the sum of the two lengths;  *)
(* src keeps its representation, length, capacity and bytes; when src is   *)
(* empty dest is left as it was.                                           *)
(***************************************************************************)
\* what a caller can tell of the container p
ViewOf(w, p) ==
    With(fio_str_state(w, p), LAMBDA st :
        [small |-> IsSmall(w, p),
         state |-> st,
         bytes |-> [i \in 1..st.len |-> ByteAt(w, st.data, i - 1)],
         term |-> ByteAt(w, st.data, st.len)])

C17_ConcatAppendsSource ==
    (last.op = "concat" /\ last.from = "t" /\ ~Frozen(pre)) =>
        /\ Content(World) = Content(pre) \o ViewOf(pre, "t").bytes
        /\ StateOf(World).len = StateOf(pre).len + fio_str_len(pre, "t")
        /\ ViewOf(World, "t") = ViewOf(pre, "t")
        /\ fio_str_len(pre, "t") = 0 => View(World) = View(pre)

C17_Witness ==
    /\ last.op = "concat" /\ last.from = "t" /\ ~Frozen(pre)
    /\ Content(pre) # <<>>
    /\ fio_str_len(pre, "t") > 0
    /\ Content(World) = Content(pre) \o ViewOf(pre, "t").bytes


(***************************************************************************)
(* C18: a step takes s from the embedded to the heap representation only   *)
(* when the operation asks for a capacity larger than the embedded         *)
(* capacity, and from the heap to the embedded representation only when    *)
(* the operation is fio_str_compact or fio_str_free: write, concat,        *)
(* overwrite, insert, resize and capa_assert never bring a heap string     *)
(* back to the embedded representation, whatever its length.               *)
(***************************************************************************)
\* the capacity the operation op asks of fio_str_capa_assert on s in w
Required(w, op) ==
    LET L == fio_str_len(w, "s")
    IN  CASE op.op = "write" -> L + Len(op.src)
          [] op.op = "concat" -> L + fio_str_len(w, op.from)
          [] op.op = "overwrite" ->
                 Min(BackwardsPos(w, "s", op.arg), L) + Len(op.src)
          [] op.op = "insert" -> L + Len(op.src)
          [] op.op = "resize" -> op.arg
          [] op.op = "capa_assert" -> op.arg
          [] OTHER -> 0

C18_RepresentationSteps ==
    /\ (Embedded(pre) /\ ~Embedded(World)) =>
           /\ last.op \in {"write", "concat", "overwrite", "insert", "resize",
                           "capa_assert"}
           /\ Required(pre, last) > StateOf(pre).capa
           /\ StateOf(pre).capa = FIO_STR_SMALL_CAPA - 1
    /\ (~Embedded(pre) /\ Embedded(World)) => last.op \in {"compact", "free"}

C18_Witness ==
    /\ ~Embedded(pre)
    /\ ~Embedded(World)
    /\ last.op = "resize"
    /\ last.arg < FIO_STR_SMALL_CAPA - 1
    /\ StateOf(World).len = last.arg


(***************************************************************************)
(* C19: fio_str_overwrite resolves a negative pos against the length L     *)
(* that fio_str_state reports, as max(0, pos + L + 1), in the embedded and *)
(* in the heap representation: the bytes are placed from that offset, so   *)
(* pos = -1 appends them; a pos larger than L is taken as L.               *)
(***************************************************************************)
C19_OverwritePosFromLength ==
    (last.op = "overwrite" /\ ~Frozen(pre) /\ last.src # <<>>) =>
        LET L == StateOf(pre).len
            P == IF last.arg < 0 THEN Max(last.arg + L + 1, 0) ELSE Min(last.arg, L)
            n == Len(last.src)
        IN  /\ StateOf(World).len = Max(L, P + n)
            /\ Slice(Content(World), P, Min(P + n, StateOf(World).len)) =
                   SubSeq(last.src, 1, Min(P + n, StateOf(World).len) - P)
            /\ Slice(Content(World), 0, Min(P, StateOf(World).len)) =
                   Slice(Content(pre), 0, Min(P, StateOf(World).len))


(***************************************************************************)
(* C20: fio_str_insert stays in bounds: on a string that is not frozen,    *)
(* every byte it reads or writes while it moves the tail and copies the    *)
(* source lies at an index in [0, new length], new length = old length +   *)
(* |bytes| <= capacity, hence inside the embedded storage or the heap      *)
(* buffer: the call reads and writes no byte outside the object that       *)
(* holds the string.                                                       *)
(***************************************************************************)
C20_InsertInBounds ==
    (last.op = "insert" /\ ~Frozen(pre)) =>
        /\ StateOf(World).len = StateOf(pre).len + Len(last.src)
        /\ StateOf(World).len <= StateOf(World).capa
        /\ err \cap {"oob_write", "oob_read"} = {}


(***************************************************************************)
(* C21: fio_str_concat(s, s) on a string that is not frozen, of content C  *)
(* and length L, leaves s with content C followed by C and length 2L, also *)
(* when the call moves s from the embedded storage to the heap or          *)
(* reallocates its buffer; the bytes appended are those s held before the  *)
(* call, and none is read from storage that was released or that now       *)
(* holds the members of the heap representation.                           *)
(***************************************************************************)
C21_SelfConcatDoubles ==
    (last.op = "concat" /\ last.from = "s" /\ ~Frozen(pre)) =>
        /\ StateOf(World).len = 2 * StateOf(pre).len
        /\ Content(World) = Content(pre) \o Content(pre)
        /\ "use_after_free" \notin err

====
